---- MODULE Spec2Model ----
(***************************************************************************)
(* ImageFeatureValue (winml/lib/Api/ImageFeatureValue.cpp): resolution of  *)
(* the tensor description and crop rectangles of an image batch, and the   *)
(* bind (GetOrtValue) / readback (UpdateSourceResourceData) entry points   *)
(* with their pooled converters and provider allocators.                   *)
(***************************************************************************)
EXTENDS Integers, Sequences, FiniteSets, TLC

\* ------------------------------------------------------------------ bounds
\* largest frame / descriptor extent of the resolution cases
MaxDim == 2
\* largest batch of the resolution cases
MaxBatch == 2
\* largest extent of the center-crop cases
MaxCropDim == 5
\* most allocator handles one ImageFeatureValue obtains (bind calls that get that far)
MaxAllocators == 2
\* extent of the large declared tensor shape of the byte-size cases
LargeExtent == 32768

\* ---------------------------------------------------------- program constants
\* MAXUINT32 (0xFFFFFFFF), the image descriptor's free-dimension sentinel,
\* written as the int32 reading of the same 32 bits
MAXUINT32 == -1

VARIABLES
  m_widths,        \* ImageFeatureValue::m_widths, one per frame
  m_heights,       \* ImageFeatureValue::m_heights, one per frame
  desired,         \* <<desiredWidth, desiredHeight>> handed to CenterAndCropBounds
  crop,            \* what CenterAndCropBounds returned
  context,         \* WinML::BindingContext: type, descriptor, properties, converter
  metadata,        \* what the last GetInputMetadata(context) produced
  device,          \* the session's LearningModelDevice: "cpu" or "gpu"
  ctxState,        \* the caller's binding context: "none", "binding", "bound", "failed"
  alive,           \* the ImageFeatureValue has not been destroyed
  pc,              \* position inside GetOrtValue / UpdateSourceResourceData
  batchIdx,        \* loop index of the running conversion loop (from 1)
  pooledConverter, \* the local PoolObjectWrapper of the running loop, 0 if none
  converters,      \* every ConverterResources created: its store and descriptor
  stores,          \* TensorizerStore / DetensorizerStore: the cached (idle) converters
  m_adapter,       \* m_adapter has been obtained
  m_tensorAllocators, \* ImageFeatureValue::m_tensorAllocators
  allocators,      \* per allocator handle obtained: times FreeProviderAllocator ran on it
  hr,              \* HRESULT of the last entry-point call that returned
  submitted,       \* converters with GPU tensorization queued for a run not yet finished
  log,             \* the events of the current entry-point call, in order
  entry,           \* the entry point that runs or returned last
  lastMemoryInfo,  \* Ort::MemoryInfo of the value of the last readback
  bufferByteSize,  \* GetOrtValue: bytes of the tensor; readback: bytes of a frame
  singleFrameBufferSize, \* the unsigned int handed to CPUTensorize
  tempPResource,   \* tempPResource / tempPAllocatedResource, as a byte offset
  written          \* the offsets the CPU conversions of the current call were given

cropVars == <<m_widths, m_heights, desired, crop>>
resolveVars == <<context, metadata>>
bindVars == <<device, ctxState, alive, pc, batchIdx, pooledConverter, converters,
              stores, m_adapter, m_tensorAllocators, allocators, hr, submitted, log,
              entry, lastMemoryInfo, bufferByteSize, singleFrameBufferSize,
              tempPResource, written>>
callVars == <<entry, lastMemoryInfo, bufferByteSize, singleFrameBufferSize,
              tempPResource, written>>
vars == <<cropVars, resolveVars, bindVars>>

\* the element of a one-element set.  {f(x) : x \in {e}} evaluates e once and
\* hands f its value; the operators below use it wherever a value is read
\* more than once.
The(S) == CHOOSE x \in S : TRUE

Min(a, b) == The({IF t[1] < t[2] THEN t[1] ELSE t[2] : t \in {<<a, b>>}})

\* ------------------------------------------------------- IEEE-754 binary32
\* A positive float is [m, e] with value m * 2^e and 2^23 <= m < 2^24; zero
\* is [m |-> 0, e |-> 0].  Every operation rounds to nearest, ties to even,
\* as the float arithmetic of CenterAndCropBounds does.  The operators are
\* exact for the operand ranges the bounds above produce (significand
\* products below 2^31).
F32Zero == [m |-> 0, e |-> 0]

RECURSIVE F32Scale(_, _, _)
\* num/den * 2^e rewritten as <<num', den', e'>> with den' <= num' < 2*den'
F32Scale(num, den, e) ==
  The({IF t[1] < t[2] THEN F32Scale(2 * t[1], t[2], t[3] - 1)
       ELSE IF t[1] >= 2 * t[2] THEN F32Scale(t[1], 2 * t[2], t[3] + 1)
       ELSE t
       : t \in {<<num, den, e>>}})

RECURSIVE F32DivBits(_, _, _, _)
\* k further quotient bits of (q*den + r)/den by long division
F32DivBits(q, r, den, k) ==
  The({IF t[4] = 0 THEN <<t[1], t[2]>>
       ELSE IF 2 * t[2] >= t[3]
         THEN F32DivBits(2 * t[1] + 1, 2 * t[2] - t[3], t[3], t[4] - 1)
       ELSE F32DivBits(2 * t[1], 2 * t[2], t[3], t[4] - 1)
       : t \in {<<q, r, den, k>>}})

\* round to nearest, ties to even: quotient q (24 bits), remainder r of den
F32Nearest(q, r, den, e) ==
  LET up == \/ 2 * r > den
            \/ 2 * r = den /\ q % 2 = 1
      m  == IF up THEN q + 1 ELSE q
  IN IF m = 2^24 THEN [m |-> 2^23, e |-> e - 22]
     ELSE [m |-> m, e |-> e - 23]

\* the float nearest to num/den * 2^e
F32Round(num, den, e) ==
  The({IF t[1] = 0 THEN F32Zero
       ELSE The({The({F32Nearest(qr[1], qr[2], s[2], s[3])
                      : qr \in {F32DivBits(1, s[1] - s[2], s[2], 23)}})
                 : s \in {F32Scale(t[1], t[2], t[3])}})
       : t \in {<<num, den, e>>}})

RECURSIVE F32Strip(_)
\* the same value with an odd significand
F32Strip(a) ==
  The({IF x.m # 0 /\ x.m % 2 = 0
       THEN F32Strip([m |-> x.m \div 2, e |-> x.e + 1])
       ELSE x
       : x \in {a}})

\* static_cast<float>(uint32_t)
F32FromUInt(n) == F32Round(n, 1, 0)

F32Half == F32Round(1, 2, 0)

F32Mul(a, b) ==
  The({F32Round(t[1].m * t[2].m, 1, t[1].e + t[2].e)
       : t \in {<<F32Strip(a), F32Strip(b)>>}})

F32Div(a, b) ==
  The({F32Round(t[1].m, t[2].m, t[1].e - t[2].e) : t \in {<<a, b>>}})

F32Add(a, b) ==
  The({The({F32Round(t[1].m * 2^(t[1].e - e) + t[2].m * 2^(t[2].e - e), 1, e)
            : e \in {Min(t[1].e, t[2].e)}})
       : t \in {<<F32Strip(a), F32Strip(b)>>}})

F32Less(a, b) ==
  The({IF t[1].m = 0 THEN t[2].m # 0
       ELSE IF t[2].m = 0 THEN FALSE
       ELSE IF t[1].e # t[2].e THEN t[1].e < t[2].e
       ELSE t[1].m < t[2].m
       : t \in {<<a, b>>}})

\* (UINT)f : truncation toward zero
F32ToUInt(a) ==
  The({IF x.e >= 0 THEN x.m * 2^x.e
       ELSE IF -x.e > 24 THEN 0
       ELSE x.m \div 2^(-x.e)
       : x \in {a}})

\* ------------------------------------------- int64_t and unsigned int
\* An int64_t (and a byte offset of a 64-bit pointer) is its 8 bytes, least
\* significant first; an unsigned int is its 4 bytes.  The values the
\* specifications produce stay below 2^63.
RECURSIVE ToBytes(_, _)
ToBytes(n, k) ==
  IF k = 0 THEN <<>> ELSE <<n % 256>> \o ToBytes(n \div 256, k - 1)

\* static_cast<int64_t>(n)
I64(n) == ToBytes(n, 8)

RECURSIVE MulBytes(_, _, _)
\* a * m + carry, kept to the width of a
MulBytes(a, m, carry) ==
  IF a = <<>> THEN <<>>
  ELSE <<(a[1] * m + carry) % 256>>
       \o MulBytes(Tail(a), m, (a[1] * m + carry) \div 256)

\* int64_t * uint32_t
I64Mul(a, m) == MulBytes(a, m, 0)

RECURSIVE DivBytes(_, _, _, _)
\* the bytes 1..k of (r * 256^k + a[1..k]) / d
DivBytes(a, d, k, r) ==
  IF k = 0 THEN <<>>
  ELSE DivBytes(a, d, k - 1, (r * 256 + a[k]) % d)
       \o <<(r * 256 + a[k]) \div d>>

\* int64_t / uint32_t
I64Div(a, d) == DivBytes(a, d, Len(a), 0)

RECURSIVE AddBytes(_, _, _)
\* a + b + carry, kept to the width of a; b is at most as wide as a
AddBytes(a, b, carry) ==
  IF a = <<>> THEN <<>>
  ELSE <<(a[1] + (IF b = <<>> THEN 0 ELSE b[1]) + carry) % 256>>
       \o AddBytes(Tail(a), IF b = <<>> THEN <<>> ELSE Tail(b),
                   (a[1] + (IF b = <<>> THEN 0 ELSE b[1]) + carry) \div 256)

\* pointer += n
PtrAdd(ptr, n) == AddBytes(ptr, n, 0)

\* static_cast<unsigned int>(int64_t): the low 4 bytes
UInt32OfI64(a) == SubSeq(a, 1, 4)

\* ------------------------------------------------------ outcome of a call
Ok(v)     == [ok |-> TRUE, hr |-> "S_OK", value |-> v]
Throw(h)  == [ok |-> FALSE, hr |-> h, value |-> <<>>]

BitmapBounds(x, y, w, h) == [X |-> x, Y |-> y, Width |-> w, Height |-> h]

\* ---------------------------------------------------- CenterAndCropBounds
\* faulty variant of CropWide: the rectangle is moved to the centre but keeps
\* the frame's width (bounds.Width is not narrowed to the cropped width)
CropWideKeepsWidth(w, h, ratio) ==
  The({BitmapBounds((w - bw) \div 2, 0, w, h)
       : bw \in {Min(F32ToUInt(F32Add(F32Mul(ratio, F32FromUInt(h)), F32Half)),
                     w)}})

\* lines 233-237: the frame is too wide, cut off left and right
CropWide(w, h, ratio) ==
  The({BitmapBounds((w - bw) \div 2, 0, bw, h)
       : bw \in {Min(F32ToUInt(F32Add(F32Mul(ratio, F32FromUInt(h)), F32Half)),
                     w)}})

\* lines 239-243: the frame is too tall, cut off top and bottom
CropTall(w, h, ratio) ==
  The({BitmapBounds(0, (h - bh) \div 2, w, bh)
       : bh \in {Min(F32ToUInt(F32Add(F32Div(F32FromUInt(w), ratio), F32Half)),
                     h)}})

\* lines 228-253 for a frame of w x h
CenterCrop(w, h, desiredWidth, desiredHeight) ==
  The({The({IF /\ bounds.X >= 0 /\ bounds.X <= w
               /\ bounds.Y >= 0 /\ bounds.Y <= h
            THEN Ok(bounds)
            ELSE Throw("WINML_ERR_INVALID_BINDING")
            : bounds \in
                {IF F32Less(F32Mul(RequiredAspectRatio, F32FromUInt(h)),
                            F32FromUInt(w))
                 THEN CropWide(w, h, RequiredAspectRatio)
                 ELSE CropTall(w, h, RequiredAspectRatio)}})
       : RequiredAspectRatio \in
           {F32Div(F32FromUInt(desiredWidth), F32FromUInt(desiredHeight))}})

\* CenterCrop over every extent the specifications use, computed once
\* (@@ makes the function an explicit table)
\* the frames' extents, and the desired extents (a descriptor may declare
\* the large extent, no frame has it)
CropDims == 1..(IF MaxCropDim > MaxDim THEN MaxCropDim ELSE MaxDim)
DesiredDims == CropDims \cup {LargeExtent}
CenterCropTable ==
  [x \in CropDims \X CropDims \X DesiredDims \X DesiredDims |->
     CenterCrop(x[1], x[2], x[3], x[4])] @@ <<>>

CenterAndCropBounds(idx, desiredWidth, desiredHeight) ==
  CenterCropTable[<<m_widths[idx], m_heights[idx], desiredWidth, desiredHeight>>]

\* ------------------------------------------------------------ Initialize
m_batchSize == Len(m_widths)

\* --------------------------------------------------- the binding context
\* BitmapPixelFormat values; Rgba16 stands for every format other than the
\* three the code accepts
SupportedFormats == {"Rgba8", "Bgra8", "Gray8"}
PixelFormats     == SupportedFormats \cup {"Rgba16"}
\* TensorKind values; Int32 stands for every kind other than Float, Float16
TensorKinds      == {"Float", "Float16", "Int32"}

ImageDescriptor(w, h, fmt, kind) ==
  [kind |-> "image", Width |-> w, Height |-> h, BitmapPixelFormat |-> fmt,
   TensorKind |-> kind, Shape |-> <<>>]
TensorDescriptor(shape, kind) ==
  [kind |-> "tensor", Width |-> 0, Height |-> 0, BitmapPixelFormat |-> "Unknown",
   TensorKind |-> kind, Shape |-> shape]
\* a descriptor that is neither an ImageFeatureDescriptor nor a TensorFeatureDescriptor
OtherDescriptor ==
  [kind |-> "other", Width |-> 0, Height |-> 0, BitmapPixelFormat |-> "Unknown",
   TensorKind |-> "Float", Shape |-> <<>>]

\* the property set: BitmapPixelFormat is "absent" or a format; BitmapBounds
\* is absent, or a property value of some type holding an array
NoBounds         == [type |-> "absent", data |-> <<>>]
UInt32Array(arr) == [type |-> "UInt32Array", data |-> arr]
Properties(pf, b) == [BitmapPixelFormat |-> pf, BitmapBounds |-> b]

Context(type, descriptor, properties) ==
  [type |-> type, descriptor |-> descriptor, properties |-> properties,
   converter |-> 0]

\* std::optional
None    == [has |-> FALSE, v |-> <<>>]
Some(v) == [has |-> TRUE, v |-> v]

\* faulty variant of GetBitmapPixelFormatFromMetadata: an unsupported
\* override is treated like an absent one
GetBitmapPixelFormatOrNone(properties) ==
  IF properties.BitmapPixelFormat \in {"Rgba8", "Bgra8", "Gray8"}
  THEN Ok(Some(properties.BitmapPixelFormat))
  ELSE Ok(None)

\* ------------------------------------- GetBitmapPixelFormatFromMetadata
GetBitmapPixelFormatFromMetadata(properties) ==
  IF properties.BitmapPixelFormat # "absent"
  THEN IF properties.BitmapPixelFormat \in SupportedFormats
       THEN Ok(Some(properties.BitmapPixelFormat))
       ELSE Throw("WINML_ERR_INVALID_BINDING")
  ELSE Ok(None)

\* ------------------------------------------------ GetBoundsFromMetadata
GetBoundsFromMetadata(properties) ==
  LET b == properties.BitmapBounds
  IN IF b.type # "absent"
     THEN IF b.type # "UInt32Array" THEN Throw("WINML_ERR_INVALID_BINDING")
          ELSE IF Len(b.data) # 4 THEN Throw("WINML_ERR_INVALID_BINDING")
          ELSE Ok(Some(BitmapBounds(b.data[1], b.data[2], b.data[3], b.data[4])))
     ELSE Ok(None)

\* ------------------------------------- GetTensorDataTypeFromTensorKind
GetTensorDataTypeFromTensorKind(kind) ==
  CASE kind = "Float"   -> Ok("kImageTensorDataTypeFloat32")
    [] kind = "Float16" -> Ok("kImageTensorDataTypeFloat16")
    [] OTHER            -> Throw("WINML_ERR_INVALID_BINDING")

\* ------------------------------------------ CreateImageTensorDescriptor
ImageTensorDescription(dataType, channelType, batchSize, channels, height, width) ==
  [dataType |-> dataType, channelType |-> channelType,
   sizes |-> <<batchSize, channels, height, width>>]

CreateImageTensorDescriptor(tensorKind, pixelFormat, batchSize, width, height) ==
  The({IF ~dataType.ok THEN dataType
       ELSE CASE pixelFormat = "Rgba8" ->
                   Ok(ImageTensorDescription(dataType.value,
                        "kImageTensorChannelTypeRGB8", batchSize, 3, height, width))
              [] pixelFormat = "Bgra8" ->
                   Ok(ImageTensorDescription(dataType.value,
                        "kImageTensorChannelTypeBGR8", batchSize, 3, height, width))
              [] pixelFormat = "Gray8" ->
                   Ok(ImageTensorDescription(dataType.value,
                        "kImageTensorChannelTypeGRAY8", batchSize, 1, height, width))
              [] OTHER -> Throw("E_NOTIMPL")
       : dataType \in {GetTensorDataTypeFromTensorKind(tensorKind)}})

\* ------------------------------------------------- the buffer's byte sizes
GetSizeFromTensorDataType(type) ==
  CASE type = "kImageTensorDataTypeFloat32" -> 4
    [] type = "kImageTensorDataTypeFloat16" -> 2

\* std::accumulate(begin(sizes), end(sizes), static_cast<int64_t>(1),
\*                 std::multiplies<int64_t>())
BufferSize(tensorDescriptor) ==
  I64Mul(I64Mul(I64Mul(I64Mul(I64(1), tensorDescriptor.sizes[1]),
                       tensorDescriptor.sizes[2]),
                tensorDescriptor.sizes[3]),
         tensorDescriptor.sizes[4])

\* GetSizeFromTensorDataType(dataType) * bufferSize
BufferByteSize(tensorDescriptor) ==
  I64Mul(BufferSize(tensorDescriptor),
         GetSizeFromTensorDataType(tensorDescriptor.dataType))

\* bufferByteSize / m_batchSize
FrameByteSize(tensorDescriptor, batchSize) ==
  I64Div(BufferByteSize(tensorDescriptor), batchSize)

\* ----------------------------------------------------- GetInputMetadata
\* faulty variant of AllAdjacentEqual: the last pair is not compared
AllAdjacentEqualButLast(v) == \A i \in 1..(Len(v) - 2) : v[i] = v[i + 1]

\* std::adjacent_find(begin, end, not_equal_to) == end
AllAdjacentEqual(v) == \A i \in 1..(Len(v) - 1) : v[i] = v[i + 1]

\* what GetInputMetadata hands back: an ImageResourceMetadata ("Resolved"),
\* an empty optional ("NotApplicable"), or an exception ("Throw", hr).
\* cropCalls counts the CenterAndCropBounds evaluations of the call.
Resolved(bounds, desc, calls) ==
  [kind |-> "Resolved", hr |-> "S_OK", Bounds |-> bounds,
   TensorDescriptor |-> desc, cropCalls |-> calls]
NotApplicable ==
  [kind |-> "NotApplicable", hr |-> "S_OK", Bounds |-> <<>>,
   TensorDescriptor |-> <<>>, cropCalls |-> 0]
Thrown(h, calls) ==
  [kind |-> "Throw", hr |-> h, Bounds |-> <<>>,
   TensorDescriptor |-> <<>>, cropCalls |-> calls]
NoMetadata ==
  [kind |-> "None", hr |-> "S_OK", Bounds |-> <<>>,
   TensorDescriptor |-> <<>>, cropCalls |-> 0]

\* lines 408-450: descriptorWidth, descriptorHeight and tensorKind
DescriptorShape(ctx) ==
  LET d == ctx.descriptor
  IN IF d.kind = "image"
     THEN IF d.Width = MAXUINT32 /\ ~AllAdjacentEqual(m_widths)
            THEN Throw("E_INVALIDARG")
          ELSE IF d.Height = MAXUINT32 /\ ~AllAdjacentEqual(m_heights)
            THEN Throw("E_INVALIDARG")
          ELSE Ok(Some([descriptorWidth  |-> IF d.Width = MAXUINT32
                                               THEN m_widths[1] ELSE d.Width,
                        descriptorHeight |-> IF d.Height = MAXUINT32
                                               THEN m_heights[1] ELSE d.Height,
                        tensorKind       |-> d.TensorKind]))
     ELSE IF d.kind = "tensor"
     THEN IF Len(d.Shape) # 4 THEN Ok(None)
          ELSE IF ~(d.Shape[2] = 3 \/ d.Shape[2] = 1) THEN Ok(None)
          ELSE IF -1 = d.Shape[4] /\ ~AllAdjacentEqual(m_widths)
            THEN Throw("E_INVALIDARG")
          ELSE IF -1 = d.Shape[3] /\ ~AllAdjacentEqual(m_heights)
            THEN Throw("E_INVALIDARG")
          ELSE Ok(Some([descriptorWidth  |-> IF -1 = d.Shape[4]
                                               THEN m_widths[1] ELSE d.Shape[4],
                        descriptorHeight |-> IF -1 = d.Shape[3]
                                               THEN m_heights[1] ELSE d.Shape[3],
                        tensorKind       |-> d.TensorKind]))
     ELSE Ok(None)

\* faulty variant of FrameBounds: on an input binding the center crop is
\* taken before the bounds override is looked at
FrameBoundsCropFirst(ctx, i, descriptorWidth, descriptorHeight) ==
  The({IF ~tempBounds.ok THEN [r |-> tempBounds, calls |-> 0]
       ELSE IF ctx.type = "kInput"
       THEN [r |-> CenterAndCropBounds(i, descriptorWidth, descriptorHeight),
             calls |-> 1]
       ELSE IF ~tempBounds.value.has
       THEN [r |-> Ok(BitmapBounds(0, 0, m_widths[i], m_heights[i])),
             calls |-> 0]
       ELSE [r |-> Ok(tempBounds.value.v), calls |-> 0]
       : tempBounds \in {GetBoundsFromMetadata(ctx.properties)}})

\* lines 456-470, one iteration of the loop over the frames
FrameBounds(ctx, i, descriptorWidth, descriptorHeight) ==
  The({IF ~tempBounds.ok THEN [r |-> tempBounds, calls |-> 0]
       ELSE IF ~tempBounds.value.has
       THEN IF ctx.type = "kInput"
            THEN [r |-> CenterAndCropBounds(i, descriptorWidth, descriptorHeight),
                  calls |-> 1]
            ELSE [r |-> Ok(BitmapBounds(0, 0, m_widths[i], m_heights[i])),
                  calls |-> 0]
       ELSE [r |-> Ok(tempBounds.value.v), calls |-> 0]
       : tempBounds \in {GetBoundsFromMetadata(ctx.properties)}})

RECURSIVE BoundsLoop(_, _, _, _, _, _)
\* lines 455-470: the loop from frame i on, bounds and calls being what the
\* earlier frames produced
BoundsLoop(ctx, i, descriptorWidth, descriptorHeight, bounds, calls) ==
  IF i > m_batchSize THEN [r |-> Ok(bounds), calls |-> calls]
  ELSE The({IF ~f.r.ok THEN [r |-> f.r, calls |-> calls + f.calls]
            ELSE BoundsLoop(ctx, i + 1, descriptorWidth, descriptorHeight,
                            Append(bounds, f.r.value), calls + f.calls)
            : f \in {FrameBounds(ctx, i, descriptorWidth, descriptorHeight)}})

\* lines 473-492
ResolvePixelFormat(ctx) ==
  The({IF ~pixelFormat.ok THEN pixelFormat
       ELSE IF ~pixelFormat.value.has /\ ctx.descriptor.kind = "image"
         THEN Ok(ctx.descriptor.BitmapPixelFormat)
       ELSE IF ~pixelFormat.value.has /\ ctx.descriptor.kind = "tensor"
         THEN IF ctx.descriptor.Shape[2] = 1 THEN Ok("Gray8")
              ELSE IF ctx.descriptor.Shape[2] = 3 THEN Ok("Bgra8")
              ELSE Throw("WINML_ERR_SIZE_MISMATCH")
       ELSE Ok(pixelFormat.value.v)
       : pixelFormat \in {GetBitmapPixelFormatFromMetadata(ctx.properties)}})

\* lines 473-496, once the bounds b of every frame are known
ResolveDescription(ctx, s, b) ==
  The({IF ~pixelFormat.ok THEN Thrown(pixelFormat.hr, b.calls)
       ELSE The({IF ~desc.ok THEN Thrown(desc.hr, b.calls)
                 ELSE Resolved(b.r.value, desc.value, b.calls)
                 : desc \in {CreateImageTensorDescriptor(
                               s.tensorKind, pixelFormat.value, m_batchSize,
                               s.descriptorWidth, s.descriptorHeight)}})
       : pixelFormat \in {ResolvePixelFormat(ctx)}})

\* lines 452-496, once the descriptor's shape s is known
ResolveBounds(ctx, s) ==
  The({IF ~b.r.ok THEN Thrown(b.r.hr, b.calls)
       ELSE ResolveDescription(ctx, s, b)
       : b \in {BoundsLoop(ctx, 1, s.descriptorWidth, s.descriptorHeight,
                           <<>>, 0)}})

GetInputMetadata(ctx) ==
  The({IF ~shape.ok THEN Thrown(shape.hr, 0)
       ELSE IF ~shape.value.has THEN NotApplicable
       ELSE ResolveBounds(ctx, shape.value.v)
       : shape \in {DescriptorShape(ctx)}})

\* ------------------------------------------- the pooled converters' store
\* ConverterResourceDescription of the CPU and GPU conversions
CpuDescriptor(tensorDescriptor) ==
  [pixel_format |-> "BitmapPixelFormat::Bgra8",
   width |-> tensorDescriptor.sizes[4], height |-> tensorDescriptor.sizes[3],
   luid |-> "{}"]
GpuDescriptor(tensorDescriptor) ==
  [pixel_format |-> "DirectXPixelFormat::B8G8R8X8UIntNormalized",
   width |-> tensorDescriptor.sizes[4], height |-> tensorDescriptor.sizes[3],
   luid |-> "AdapterLuid"]

\* the pool as one value: every converter created, and each store's cache
Pool == [converters |-> converters, stores |-> stores]

\* ConverterResourceStore::Fetch: the first cached converter of the key, taken
\* out of the cache, or a new converter when the cache holds none
Fetch(p, store, descriptor) ==
  The({IF hits # {}
       THEN The({[c |-> p.stores[store][k],
                  p |-> [p EXCEPT !.stores[store] =
                           SubSeq(@, 1, k - 1) \o SubSeq(@, k + 1, Len(@))]]
                 : k \in {CHOOSE x \in hits : \A y \in hits : x <= y}})
       ELSE [c |-> Len(p.converters) + 1,
             p |-> [p EXCEPT !.converters =
                      Append(@, [store |-> store, descriptor |-> descriptor])]]
       : hits \in {{k \in 1..Len(p.stores[store]) :
                      p.converters[p.stores[store][k]].descriptor = descriptor}}})

\* ~PoolObjectWrapper: the converter goes back into its store's cache
ReturnToCache(p, c) ==
  [p EXCEPT !.stores[p.converters[c].store] = Append(@, c)]

\* dropping the last reference to a wrapper; 0 is the null wrapper
Release(p, c) == IF c = 0 THEN p ELSE ReturnToCache(p, c)

\* converters that are out of their store's cache
CheckedOut ==
  {c \in 1..Len(converters) :
     \A k \in 1..Len(stores[converters[c].store]) :
        stores[converters[c].store][k] # c}

Ev(name, i, c) == [ev |-> name, i |-> i, c |-> c]

\* faulty variant of CPUTensorizeFrame: the converter is handed back only
\* when the conversion returns normally
CPUTensorizeFrameKeepsOnThrow(p, i, tensorDescriptor, throws) ==
  The({[p |-> IF throws THEN f.p ELSE Release(f.p, f.c),
        events |-> <<Ev("fetch", i, f.c),
                     Ev(IF throws THEN "throw" ELSE "VideoFrameToSoftwareTensor",
                        i, f.c)>>
                   \o (IF throws THEN <<>> ELSE <<Ev("return", i, f.c)>>)]
       : f \in {Fetch(p, "TensorizerStore", CpuDescriptor(tensorDescriptor))}})

\* ------------------------------------------------ CPUTensorize (one frame)
\* lines 305-331: fetch, convert, and the wrapper's scope ends on the normal
\* return and on an exception of the conversion alike
CPUTensorizeFrame(p, i, tensorDescriptor, throws) ==
  The({[p |-> Release(f.p, f.c),
        events |-> <<Ev("fetch", i, f.c),
                     Ev(IF throws THEN "throw" ELSE "VideoFrameToSoftwareTensor",
                        i, f.c),
                     Ev("return", i, f.c)>>]
       : f \in {Fetch(p, "TensorizerStore", CpuDescriptor(tensorDescriptor))}})

\* ------------------------------------- GPUTensorize (one loop iteration)
\* lines 371-394: fetch, VideoFrameToDX12Tensor, context.converter =
\* pooledConverter (which drops the wrapper the context held before), and
\* the local wrapper's scope ends
GPUTensorizeFrame(p, held, i, tensorDescriptor, throws) ==
  The({IF throws
       THEN [p |-> Release(f.p, f.c), converter |-> held, queued |-> {},
             events |-> <<Ev("fetch", i, f.c), Ev("throw", i, f.c),
                          Ev("return", i, f.c)>>]
       ELSE [p |-> Release(f.p, held), converter |-> f.c, queued |-> {f.c},
             events |-> <<Ev("fetch", i, f.c),
                          Ev("VideoFrameToDX12Tensor", i, f.c)>>
                        \o (IF held # 0 THEN <<Ev("return", i, held)>> ELSE <<>>)]
       : f \in {Fetch(p, "TensorizerStore", GpuDescriptor(tensorDescriptor))}})

\* ------------------------------- UpdateSourceResourceData, the GPU loop body
\* lines 610-622: the statements of one iteration, in order
GPUDetensorizeBody ==
  <<"DX12TensorToVideoFrame", "SyncD3D12ToCPU", "ResetAllocator">>

\* faulty variant of IsCpuTensor: only the allocator's name is looked at
IsCpuTensorByName(memory_info) == memory_info.Name = "Cpu"

\* OrtMemoryInfo of the output tensor: lines 582-584
IsCpuTensor(memory_info) ==
  \/ memory_info.Name = "Cpu"
  \/ memory_info.MemType = "OrtMemTypeCPUOutput"
  \/ memory_info.MemType = "OrtMemTypeCPUInput"

\* no binding context exists
NoContext ==
  [type |-> "none", descriptor |-> OtherDescriptor,
   properties |-> Properties("absent", NoBounds), converter |-> 0]

\* no Ort::MemoryInfo has been read
NoMemoryInfo == [Name |-> "none", MemType |-> "none"]

\* the byte sizes and the pointer of an entry point that converts nothing on
\* the CPU
NoConversion ==
  /\ bufferByteSize' = I64(0)
  /\ singleFrameBufferSize' = UInt32OfI64(I64(0))
  /\ tempPResource' = I64(0)
  /\ written' = <<>>

\* ------------------------------------------------------------ the actions
\* an entry point returns h to its caller
Returns(h) ==
  /\ hr' = h
  /\ pc' = "idle"
  /\ batchIdx' = 0
  /\ pooledConverter' = 0

\* GetOrtValue, lines 499-541, up to the call of the tensorize loop.  fault
\* names the engine call that fails, if any.
GetOrtValue(type, descriptor, properties, fault) ==
  /\ pc = "idle" /\ alive /\ ctxState = "none"
  /\ Len(allocators) < MaxAllocators
  /\ context' = Context(type, descriptor, properties)
  /\ \E md \in {GetInputMetadata(Context(type, descriptor, properties))} :
       LET resolved     == md.kind = "Resolved"
           gotAllocator == resolved /\ fault # "GetProviderAllocator"
           madeTensor   == gotAllocator /\ fault # "CreateTensor"
           gotData      == madeTensor /\ fault # "GetTensorMutableData"
           tensorizes   == gotData /\ type = "kInput"
       IN /\ metadata' = md
          /\ m_adapter' = (m_adapter \/ resolved)
          /\ allocators' = IF gotAllocator THEN Append(allocators, 0) ELSE allocators
          /\ m_tensorAllocators' =
               IF madeTensor THEN Append(m_tensorAllocators, Len(allocators) + 1)
               ELSE m_tensorAllocators
          /\ log' = <<>>
          /\ IF tensorizes
             THEN /\ pc' = IF device = "cpu" THEN "CPUTensorize" ELSE "GPUTensorize"
                  /\ batchIdx' = 1
                  /\ ctxState' = "binding"
                  /\ bufferByteSize' = BufferByteSize(md.TensorDescriptor)
                  /\ singleFrameBufferSize' =
                       IF device = "cpu"
                       THEN UInt32OfI64(FrameByteSize(md.TensorDescriptor, m_batchSize))
                       ELSE UInt32OfI64(I64(0))
                  /\ tempPResource' = I64(0)
                  /\ written' = <<>>
                  /\ UNCHANGED <<hr, pooledConverter>>
             ELSE /\ Returns(CASE md.kind = "Throw" -> md.hr
                               [] md.kind = "NotApplicable" -> "E_INVALIDARG"
                               [] ~gotData -> "E_FAIL"
                               [] OTHER -> "S_OK")
                  /\ ctxState' = IF gotData THEN "bound" ELSE "failed"
                  /\ NoConversion
  /\ entry' = "GetOrtValue"
  /\ UNCHANGED <<cropVars, device, alive, converters, stores, submitted,
                 lastMemoryInfo>>

\* the CPUTensorize loop, lines 342-345, one frame
CPUTensorize(throws) ==
  /\ pc = "CPUTensorize"
  /\ \E r \in {CPUTensorizeFrame(Pool, batchIdx, metadata.TensorDescriptor, throws)} :
        /\ converters' = r.p.converters
        /\ stores' = r.p.stores
        /\ log' = log \o r.events
  /\ IF throws THEN Returns("E_FAIL") /\ ctxState' = "failed"
     ELSE IF batchIdx = m_batchSize THEN Returns("S_OK") /\ ctxState' = "bound"
     ELSE /\ batchIdx' = batchIdx + 1
          /\ UNCHANGED <<hr, pc, pooledConverter, ctxState>>
  /\ IF throws THEN UNCHANGED <<tempPResource, written>>
     ELSE /\ written' = Append(written, tempPResource)
          /\ tempPResource' = PtrAdd(tempPResource, singleFrameBufferSize)
  /\ UNCHANGED <<cropVars, resolveVars, device, alive, m_adapter,
                 m_tensorAllocators, allocators, submitted, entry, lastMemoryInfo,
                 bufferByteSize, singleFrameBufferSize>>

\* the GPUTensorize loop, lines 371-394, one frame
GPUTensorize(throws) ==
  /\ pc = "GPUTensorize"
  /\ \E r \in {GPUTensorizeFrame(Pool, context.converter, batchIdx,
                                  metadata.TensorDescriptor, throws)} :
        /\ converters' = r.p.converters
        /\ stores' = r.p.stores
        /\ context' = [context EXCEPT !.converter = r.converter]
        /\ submitted' = submitted \cup r.queued
        /\ log' = log \o r.events
  /\ IF throws THEN Returns("E_FAIL") /\ ctxState' = "failed"
     ELSE IF batchIdx = m_batchSize THEN Returns("S_OK") /\ ctxState' = "bound"
     ELSE /\ batchIdx' = batchIdx + 1
          /\ UNCHANGED <<hr, pc, pooledConverter, ctxState>>
  /\ UNCHANGED <<cropVars, metadata, device, alive, m_adapter,
                 m_tensorAllocators, allocators, callVars>>

\* UpdateSourceResourceData, lines 558-608, up to the conversion loop.  The
\* caller reads back once the execution run has finished.
UpdateSourceResourceData(memory_info) ==
  /\ pc = "idle" /\ alive /\ ctxState \in {"bound", "failed"}
  /\ (device = "cpu" => memory_info.Name = "Cpu")
  /\ \E md \in {GetInputMetadata(context)} :
        /\ metadata' = md
        /\ IF md.kind = "Resolved"
           THEN \E f \in {Fetch(Pool, "DetensorizerStore",
                                IF IsCpuTensor(memory_info)
                                THEN CpuDescriptor(md.TensorDescriptor)
                                ELSE GpuDescriptor(md.TensorDescriptor))} :
                   /\ converters' = f.p.converters
                   /\ stores' = f.p.stores
                   /\ pooledConverter' = f.c
                   /\ pc' = IF IsCpuTensor(memory_info)
                            THEN "SoftwareTensorToVideoFrame"
                            ELSE GPUDetensorizeBody[1]
                   /\ batchIdx' = 1
                   /\ log' = <<Ev("fetch", 0, f.c)>>
                   /\ bufferByteSize' =
                        IF IsCpuTensor(memory_info)
                        THEN FrameByteSize(md.TensorDescriptor, m_batchSize)
                        ELSE I64(0)
                   /\ singleFrameBufferSize' = UInt32OfI64(I64(0))
                   /\ tempPResource' = I64(0)
                   /\ written' = <<>>
                   /\ UNCHANGED hr
           ELSE /\ Returns(IF md.kind = "Throw" THEN md.hr
                           ELSE "bad_optional_access")
                /\ log' = <<>>
                /\ NoConversion
                /\ UNCHANGED <<converters, stores>>
  /\ m_adapter' = TRUE
  /\ submitted' = {}
  /\ entry' = "UpdateSourceResourceData"
  /\ lastMemoryInfo' = memory_info
  /\ UNCHANGED <<cropVars, context, device, ctxState, alive,
                 m_tensorAllocators, allocators>>

\* a statement of a detensorize loop throws after the events done: the local
\* wrapper's scope ends, which returns its converter whatever the converter
\* has queued, and line 629 is not reached
DetensorizeThrows(done) ==
  /\ stores' = Release(Pool, pooledConverter).stores
  /\ log' = log \o done \o <<Ev("throw", batchIdx, pooledConverter),
                               Ev("return", batchIdx, pooledConverter)>>
  /\ Returns("E_FAIL")
  /\ UNCHANGED <<cropVars, resolveVars, device, ctxState, alive, converters,
                 m_adapter, m_tensorAllocators, allocators, submitted>>

\* faulty variant of DetensorizeReturns: the context's wrapper is left alone
DetensorizeReturnsKeepsReference ==
  /\ stores' = Release(Pool, pooledConverter).stores
  /\ log' = log \o <<Ev(pc, batchIdx, pooledConverter),
                       Ev("return", batchIdx, pooledConverter)>>
  /\ Returns("S_OK")
  /\ UNCHANGED <<cropVars, resolveVars, device, ctxState, alive, converters,
                 m_adapter, m_tensorAllocators, allocators, submitted>>

\* the last statement of the last frame, then lines 600/624-630: the local
\* wrapper's scope ends, which returns its converter, then
\* context.converter = nullptr, which returns the converter the context held
DetensorizeReturns ==
  /\ stores' = Release(Release(Pool, pooledConverter), context.converter).stores
  /\ log' = log \o <<Ev(pc, batchIdx, pooledConverter),
                       Ev("return", batchIdx, pooledConverter)>>
                  \o (IF context.converter # 0
                      THEN <<Ev("return", batchIdx, context.converter)>>
                      ELSE <<>>)
  /\ context' = [context EXCEPT !.converter = 0]
  /\ Returns("S_OK")
  /\ UNCHANGED <<cropVars, metadata, device, ctxState, alive, converters,
                 m_adapter, m_tensorAllocators, allocators, submitted>>

\* the next frame of a detensorize loop
DetensorizeNextFrame(first) ==
  /\ batchIdx' = batchIdx + 1
  /\ pc' = first
  /\ UNCHANGED <<cropVars, resolveVars, device, ctxState, alive, pooledConverter,
                 converters, stores, m_adapter, m_tensorAllocators, allocators,
                 hr, submitted>>

\* the CPU loop of UpdateSourceResourceData, lines 594-599, one frame
CPUDetensorize(throws) ==
  /\ pc = "SoftwareTensorToVideoFrame"
  /\ IF throws THEN UNCHANGED <<tempPResource, written>>
     ELSE /\ written' = Append(written, tempPResource)
          /\ tempPResource' = PtrAdd(tempPResource, bufferByteSize)
  /\ UNCHANGED <<entry, lastMemoryInfo, bufferByteSize, singleFrameBufferSize>>
  /\ IF throws THEN DetensorizeThrows(<<>>)
     ELSE /\ IF batchIdx = m_batchSize
             THEN DetensorizeReturns
             ELSE /\ DetensorizeNextFrame("SoftwareTensorToVideoFrame")
                  /\ log' = log \o <<Ev(pc, batchIdx, pooledConverter)>>

\* one statement of the GPU loop body of UpdateSourceResourceData, lines
\* 610-622; k is its place in the body.  Each of the three calls can throw;
\* a conversion that throws has either queued its device work before it
\* failed (queued) or not
GPUDetensorizeStatement(k, throws, queued) ==
  /\ pc = GPUDetensorizeBody[k]
  /\ UNCHANGED callVars
  /\ queued => (throws /\ pc = "DX12TensorToVideoFrame")
  /\ IF throws
     THEN DetensorizeThrows(IF queued
                            THEN <<Ev(pc, batchIdx, pooledConverter)>>
                            ELSE <<>>)
     ELSE IF k < Len(GPUDetensorizeBody)
     THEN /\ pc' = GPUDetensorizeBody[k + 1]
          /\ log' = Append(log, Ev(pc, batchIdx, pooledConverter))
          /\ UNCHANGED <<cropVars, resolveVars, device, ctxState, alive,
                         batchIdx, pooledConverter, converters, stores,
                         m_adapter, m_tensorAllocators, allocators, hr,
                         submitted>>
     ELSE IF batchIdx = m_batchSize
     THEN DetensorizeReturns
     ELSE /\ DetensorizeNextFrame(GPUDetensorizeBody[1])
          /\ log' = Append(log, Ev(pc, batchIdx, pooledConverter))

\* the caller destroys the binding context: its converter wrapper is dropped,
\* and no call has been made on a context any more
ReleaseContext ==
  /\ pc = "idle" /\ ctxState \in {"bound", "failed"}
  /\ stores' = Release(Pool, context.converter).stores
  /\ context' = NoContext
  /\ ctxState' = "none"
  /\ submitted' = {}
  /\ entry' = "none"
  /\ lastMemoryInfo' = NoMemoryInfo
  /\ NoConversion
  /\ UNCHANGED <<cropVars, metadata, device, alive, pc, batchIdx, pooledConverter,
                 converters, m_adapter, m_tensorAllocators, allocators, hr, log>>

\* ~ImageFeatureValue, lines 176-180
Destructor ==
  /\ pc = "idle" /\ alive
  /\ allocators' =
       [h \in DOMAIN allocators |->
          allocators[h]
          + Cardinality({k \in DOMAIN m_tensorAllocators : m_tensorAllocators[k] = h})]
  /\ alive' = FALSE
  /\ UNCHANGED <<cropVars, resolveVars, device, ctxState, pc, batchIdx,
                 pooledConverter, converters, stores, m_adapter,
                 m_tensorAllocators, hr, submitted, log, callVars>>

\* ----------------------------------------------------- the specifications
\* the inputs of the bind / readback life cycle
BindBatches ==
  {b \in UNION {[1..n -> {1, MaxDim}] : n \in 1..MaxBatch} : TRUE}
BindDescriptors ==
  {ImageDescriptor(MAXUINT32, MAXUINT32, "Bgra8", "Float"),
   TensorDescriptor(<<1, 3, 1>>, "Float")}
BindProperties ==
  {Properties("absent", NoBounds), Properties("Rgba16", NoBounds)}
Faults == {"none", "GetProviderAllocator", "CreateTensor", "GetTensorMutableData"}
MemoryInfos ==
  {[Name |-> "Cpu", MemType |-> "OrtMemTypeDefault"],
   [Name |-> "DML", MemType |-> "OrtMemTypeDefault"],
   [Name |-> "DML", MemType |-> "OrtMemTypeCPUOutput"]}

InitIdle ==
  /\ desired = <<1, 1>>
  /\ crop = Throw("pending")
  /\ context = NoContext
  /\ metadata = NoMetadata
  /\ ctxState = "none"
  /\ alive = TRUE
  /\ pc = "idle"
  /\ batchIdx = 0
  /\ pooledConverter = 0
  /\ converters = <<>>
  /\ stores = [TensorizerStore |-> <<>>, DetensorizerStore |-> <<>>]
  /\ m_adapter = FALSE
  /\ m_tensorAllocators = <<>>
  /\ allocators = <<>>
  /\ hr = "none"
  /\ submitted = {}
  /\ log = <<>>
  /\ entry = "none"
  /\ lastMemoryInfo = NoMemoryInfo
  /\ bufferByteSize = I64(0)
  /\ singleFrameBufferSize = UInt32OfI64(I64(0))
  /\ tempPResource = I64(0)
  /\ written = <<>>

Init ==
  /\ m_widths \in BindBatches
  /\ m_heights = [i \in DOMAIN m_widths |-> 1]
  /\ device \in {"cpu", "gpu"}
  /\ InitIdle

Next ==
  \/ \E type \in {"kInput", "kOutput"}, d \in BindDescriptors,
        props \in BindProperties, fault \in Faults :
        GetOrtValue(type, d, props, fault)
  \/ \E throws \in BOOLEAN : CPUTensorize(throws)
  \/ \E throws \in BOOLEAN : GPUTensorize(throws)
  \/ \E memory_info \in MemoryInfos : UpdateSourceResourceData(memory_info)
  \/ \E throws \in BOOLEAN : CPUDetensorize(throws)
  \/ \E k \in DOMAIN GPUDetensorizeBody, throws \in BOOLEAN, queued \in BOOLEAN :
        GPUDetensorizeStatement(k, throws, queued)
  \/ ReleaseContext
  \/ Destructor

Spec == Init /\ [][Next]_vars

\* ------------------------------------- the CPU conversions and their bytes
\* binds and readbacks of a session on a CPU device, against a free shape
\* and against a large fixed shape of either tensor kind
CpuBindDescriptors ==
  {ImageDescriptor(MAXUINT32, MAXUINT32, "Bgra8", "Float"),
   ImageDescriptor(LargeExtent, LargeExtent, "Bgra8", "Float"),
   ImageDescriptor(LargeExtent, LargeExtent, "Gray8", "Float16")}

InitCpu ==
  /\ m_widths \in BindBatches
  /\ m_heights = [i \in DOMAIN m_widths |-> 1]
  /\ device = "cpu"
  /\ InitIdle

NextCpu ==
  \/ \E type \in {"kInput", "kOutput"}, d \in CpuBindDescriptors :
        GetOrtValue(type, d, Properties("absent", NoBounds), "none")
  \/ \E throws \in BOOLEAN : CPUTensorize(throws)
  \/ UpdateSourceResourceData([Name |-> "Cpu", MemType |-> "OrtMemTypeDefault"])
  \/ \E throws \in BOOLEAN : CPUDetensorize(throws)
  \/ ReleaseContext

SpecCpu == InitCpu /\ [][NextCpu]_vars

\* --------------------------------------------- the center crop on its own
\* every frame extent and every target extent up to MaxCropDim
InitCrop ==
  /\ \E w \in 1..MaxCropDim, h \in 1..MaxCropDim :
        m_widths = <<w>> /\ m_heights = <<h>>
  /\ desired \in (1..MaxCropDim) \X (1..MaxCropDim)
  /\ crop = Throw("pending")
  /\ context = NoContext
  /\ metadata = NoMetadata
  /\ device = "cpu"
  /\ ctxState = "none"
  /\ alive = TRUE
  /\ pc = "idle"
  /\ batchIdx = 0
  /\ pooledConverter = 0
  /\ converters = <<>>
  /\ stores = [TensorizerStore |-> <<>>, DetensorizerStore |-> <<>>]
  /\ m_adapter = FALSE
  /\ m_tensorAllocators = <<>>
  /\ allocators = <<>>
  /\ hr = "none"
  /\ submitted = {}
  /\ log = <<>>
  /\ entry = "none"
  /\ lastMemoryInfo = NoMemoryInfo
  /\ bufferByteSize = I64(0)
  /\ singleFrameBufferSize = UInt32OfI64(I64(0))
  /\ tempPResource = I64(0)
  /\ written = <<>>

\* CenterAndCropBounds(0, desiredWidth, desiredHeight) is called
Crop ==
  /\ crop.hr = "pending"
  /\ crop' = CenterAndCropBounds(1, desired[1], desired[2])
  /\ UNCHANGED <<m_widths, m_heights, desired, resolveVars, bindVars>>

NextCrop == Crop

SpecCrop == InitCrop /\ [][NextCrop]_vars

\* ------------------------------------------- the resolution on its own
\* the batches: 1..MaxBatch frames, each extent in 1..MaxDim
Batches == UNION {[1..n -> 1..MaxDim] : n \in 1..MaxBatch}

\* the extents a descriptor declares: free, or fixed
ImageExtents  == {MAXUINT32, 1, MaxDim}
TensorExtents == {-1, 1, MaxDim}

\* bounds overrides: none, inside a 1 x 1 frame, reaching to MaxDim + 1,
\* three values instead of four, and a property of another type
BoundsProperties ==
  {NoBounds,
   UInt32Array(<<0, 0, 1, 1>>),
   UInt32Array(<<1, 1, MaxDim, MaxDim>>),
   UInt32Array(<<0, 0, 1>>),
   [type |-> "Int32Array", data |-> <<0, 0, 1, 1>>]}

\* every declared shape, with the default format and kind, no overrides
ShapeContexts ==
  {Context(type, d, Properties("absent", NoBounds)) :
     type \in {"kInput", "kOutput"},
     d \in {ImageDescriptor(w, h, "Bgra8", "Float") :
              w \in ImageExtents, h \in ImageExtents}
           \cup {TensorDescriptor(<<1, c, h, w>>, "Float") :
                   c \in {1, 2, 3}, h \in TensorExtents, w \in TensorExtents}
           \cup {TensorDescriptor(<<1, 3, 1>>, "Float"), OtherDescriptor}}

\* every format source: the override, the declared format, the channel count,
\* and every tensor kind
FormatContexts ==
  {Context("kInput", d, Properties(pf, NoBounds)) :
     pf \in {"absent"} \cup PixelFormats,
     d \in {ImageDescriptor(MAXUINT32, MAXUINT32, fmt, kind) :
              fmt \in PixelFormats, kind \in TensorKinds}
           \cup {TensorDescriptor(<<1, c, -1, -1>>, kind) :
                   c \in {1, 2, 3}, kind \in TensorKinds}}

\* every bounds source, against a free and a fixed declared shape
BoundsContexts ==
  {Context(type, d, Properties("absent", b)) :
     type \in {"kInput", "kOutput"},
     b \in BoundsProperties,
     d \in {ImageDescriptor(MAXUINT32, MAXUINT32, "Bgra8", "Float"),
            ImageDescriptor(MaxDim, 1, "Gray8", "Float16"),
            TensorDescriptor(<<1, 3, 1, MaxDim>>, "Float")}}

ResolveContexts == ShapeContexts \cup FormatContexts \cup BoundsContexts

InitResolve ==
  /\ m_widths \in Batches
  /\ m_heights \in Batches
  /\ Len(m_heights) = Len(m_widths)
  /\ context \in ResolveContexts
  /\ metadata = NoMetadata
  /\ desired = <<1, 1>>
  /\ crop = Throw("pending")
  /\ device = "cpu"
  /\ ctxState = "none"
  /\ alive = TRUE
  /\ pc = "idle"
  /\ batchIdx = 0
  /\ pooledConverter = 0
  /\ converters = <<>>
  /\ stores = [TensorizerStore |-> <<>>, DetensorizerStore |-> <<>>]
  /\ m_adapter = FALSE
  /\ m_tensorAllocators = <<>>
  /\ allocators = <<>>
  /\ hr = "none"
  /\ submitted = {}
  /\ log = <<>>
  /\ entry = "none"
  /\ lastMemoryInfo = NoMemoryInfo
  /\ bufferByteSize = I64(0)
  /\ singleFrameBufferSize = UInt32OfI64(I64(0))
  /\ tempPResource = I64(0)
  /\ written = <<>>

\* GetInputMetadata(context) is called
Resolve ==
  /\ metadata.kind = "None"
  /\ metadata' = GetInputMetadata(context)
  /\ UNCHANGED <<cropVars, context, bindVars>>

NextResolve == Resolve

SpecResolve == InitResolve /\ [][NextResolve]_vars

\* ------------------------------------------------------------ the claims
\* C1 (as stated): every converter whose GPU tensorization has been queued
\* stays checked out of the pool until the caller signals that the run has
\* finished (readback or release of the binding context); none is back in
\* the pool earlier, in particular not while later frames are submitted.
C1_SubmittedStayCheckedOut == submitted \subseteq CheckedOut

\* C2: once CenterAndCropBounds has been called on a frame of W x H (W, H >= 1)
\* with a target of tw x th (tw, th >= 1), it has either returned a rectangle
\* with 0 <= x, 0 <= y, x + crop_w <= W and y + crop_h <= H, or failed with
\* the invalid-binding condition.
C2_CropWithinFrame ==
  crop.hr # "pending" =>
    IF crop.ok
    THEN /\ 0 <= crop.value.X
         /\ 0 <= crop.value.Y
         /\ crop.value.X + crop.value.Width <= m_widths[1]
         /\ crop.value.Y + crop.value.Height <= m_heights[1]
    ELSE crop.hr = "WINML_ERR_INVALID_BINDING"

\* C2's case: a frame that is really cropped, left and right cut off
C2_Witness ==
  /\ crop.ok
  /\ crop.value.X > 0
  /\ crop.value.Width < m_widths[1]
  /\ crop.value.Height = m_heights[1]

\* a rectangle lies within a frame of w x h
WithinFrame(b, w, h) ==
  /\ 0 <= b.X /\ 0 <= b.Y
  /\ b.X + b.Width <= w
  /\ b.Y + b.Height <= h

\* C3 (as stated): every resolution that succeeds yields one crop rectangle
\* per frame, each within its own frame, whichever source the rectangle comes
\* from (bounds override, input center crop, output full frame).
C3_BoundsWithinFrames ==
  metadata.kind = "Resolved" =>
    /\ Len(metadata.Bounds) = m_batchSize
    /\ \A i \in 1..m_batchSize :
          WithinFrame(metadata.Bounds[i], m_widths[i], m_heights[i])

\* the declared descriptor leaves the width / the height free
FreeWidth ==
  \/ context.descriptor.kind = "image" /\ context.descriptor.Width = MAXUINT32
  \/ /\ context.descriptor.kind = "tensor"
     /\ Len(context.descriptor.Shape) = 4
     /\ context.descriptor.Shape[4] = -1
FreeHeight ==
  \/ context.descriptor.kind = "image" /\ context.descriptor.Height = MAXUINT32
  \/ /\ context.descriptor.kind = "tensor"
     /\ Len(context.descriptor.Shape) = 4
     /\ context.descriptor.Shape[3] = -1

\* all frames have the same value on every free axis
FreeAxesAgree ==
  /\ FreeWidth => \A i, j \in 1..m_batchSize : m_widths[i] = m_widths[j]
  /\ FreeHeight => \A i, j \in 1..m_batchSize : m_heights[i] = m_heights[j]

\* a resolved size on a free axis is the value all frames share
FreeAxesResolved ==
  /\ FreeWidth =>
       \A i \in 1..m_batchSize : metadata.TensorDescriptor.sizes[4] = m_widths[i]
  /\ FreeHeight =>
       \A i \in 1..m_batchSize : metadata.TensorDescriptor.sizes[3] = m_heights[i]

\* a descriptor the resolver services: image-shaped, or tensor-shaped of rank
\* 4 with 1 or 3 channels
Serviceable ==
  \/ context.descriptor.kind = "image"
  \/ /\ context.descriptor.kind = "tensor"
     /\ Len(context.descriptor.Shape) = 4
     /\ context.descriptor.Shape[2] \in {1, 3}

\* C4 (as stated): with a free spatial axis, resolution succeeds exactly when
\* all frames agree on it, the resolved size is then the shared value, and a
\* disagreement fails with the invalid-argument condition.
C4_SucceedsExactlyWhenFramesAgree ==
  (metadata.kind # "None" /\ (FreeWidth \/ FreeHeight)) =>
    /\ metadata.kind = "Resolved" <=> FreeAxesAgree
    /\ metadata.kind = "Resolved" => FreeAxesResolved
    /\ ~FreeAxesAgree => metadata.kind = "Throw" /\ metadata.hr = "E_INVALIDARG"

\* C4 (amended): with a free spatial axis of a serviceable descriptor,
\* resolution fails with the invalid-argument condition exactly when two
\* frames disagree on a free axis, and then yields no tensor description;
\* whenever it succeeds, all frames agree and the resolved size on each free
\* axis is the value they share.
C4_FreeAxisRule ==
  (metadata.kind # "None" /\ (FreeWidth \/ FreeHeight) /\ Serviceable) =>
    /\ (metadata.kind = "Throw" /\ metadata.hr = "E_INVALIDARG") <=> ~FreeAxesAgree
    /\ metadata.kind = "Throw" => metadata.TensorDescriptor = <<>>
    /\ metadata.kind = "Resolved" => FreeAxesResolved

\* C4's case: two frames that agree on the free axes resolve to their size
C4_Witness ==
  /\ m_batchSize = 2
  /\ FreeWidth /\ FreeHeight
  /\ metadata.kind = "Resolved"
  /\ metadata.TensorDescriptor.sizes[4] = MaxDim
  /\ metadata.TensorDescriptor.sizes[3] = 1

\* the HRESULTs a failed metadata resolution raises
ResolutionFailures ==
  {"E_INVALIDARG", "WINML_ERR_INVALID_BINDING", "WINML_ERR_SIZE_MISMATCH",
   "E_NOTIMPL"}

\* C5 (as stated): a bind or readback call whose descriptor the resolver
\* declines ("not applicable") never hands its caller an outcome value that
\* a failed resolution, such as an ambiguous free dimension, also produces.
C5_NotApplicableDistinct ==
  (pc = "idle" /\ metadata.kind = "NotApplicable") => hr \notin ResolutionFailures

\* the statements of the GPU detensorize loop that the log records
C6_Follows(k, name) ==
  /\ k > 1
  /\ log[k - 1] = Ev(name, log[k].i, log[k].c)

\* C6 (as stated): in GPU detensorization the events of every frame are conversion, then
\* sync, then allocator reset: a reset directly follows the sync of its
\* frame, a sync directly follows the conversion of its frame, frame i + 1 is
\* converted only directly after the reset of frame i, nothing but its sync
\* follows a conversion (so the converter is not returned in between), and
\* while a sync is outstanding the converter is checked out of the pool.
C6_SyncBeforeResetAndReturn ==
  /\ \A k \in DOMAIN log :
        /\ log[k].ev = "ResetAllocator" => C6_Follows(k, "SyncD3D12ToCPU")
        /\ log[k].ev = "SyncD3D12ToCPU" => C6_Follows(k, "DX12TensorToVideoFrame")
        /\ (log[k].ev = "DX12TensorToVideoFrame" /\ log[k].i > 1) =>
              /\ k > 1
              /\ log[k - 1] = Ev("ResetAllocator", log[k].i - 1, log[k].c)
        /\ (log[k].ev = "DX12TensorToVideoFrame" /\ k < Len(log)) =>
              log[k + 1] = Ev("SyncD3D12ToCPU", log[k].i, log[k].c)
  /\ (log # <<>> /\ log[Len(log)].ev \in {"DX12TensorToVideoFrame", "SyncD3D12ToCPU"}) =>
        log[Len(log)].c \in CheckedOut

\* the converters that are fetched into a scoped wrapper only: the CPU
\* tensorizers and all detensorizers
ScopedConverters ==
  {c \in 1..Len(converters) :
     \/ converters[c].store = "DetensorizerStore"
     \/ converters[c].descriptor.luid = "{}"}

\* how often converter c is in its store's cache
TimesCached(c) ==
  Cardinality({k \in DOMAIN stores[converters[c].store] :
                 stores[converters[c].store][k] = c})

\* how many events named name the current call logged for converter c
TimesLogged(name, c) ==
  Cardinality({k \in DOMAIN log : log[k].ev = name /\ log[k].c = c})

\* C7: a converter fetched into the scoped wrapper of the CPU tensorize path
\* or of a detensorize path is never in the pool twice, and once the call
\* has returned, normally or by a failing conversion, every such converter is
\* back in the pool and was returned as often as the call fetched it.
C7_ScopedReturnedExactlyOnce ==
  \A c \in ScopedConverters :
    /\ TimesCached(c) <= 1
    /\ pc = "idle" =>
         /\ TimesCached(c) = 1
         /\ TimesLogged("return", c) = TimesLogged("fetch", c)

\* C7's case: a CPU tensorize call whose second frame failed has returned
C7_Witness ==
  /\ pc = "idle" /\ hr = "E_FAIL"
  /\ \E k \in DOMAIN log :
        /\ log[k].ev = "throw" /\ log[k].i = 2
        /\ log[k].c \in ScopedConverters
        /\ converters[log[k].c].store = "TensorizerStore"

\* C8 (as stated): every allocator handle obtained during bind calls,
\* successful or failing, is released exactly once and only at destruction:
\* not at all while the instance lives, once when it has been destroyed.
C8_ReleasedOnceAtDestruction ==
  \A h \in DOMAIN allocators : allocators[h] = IF alive THEN 0 ELSE 1

\* the channel type of each supported pixel format
ChannelTypeOf(fmt) ==
  CASE fmt = "Rgba8" -> "kImageTensorChannelTypeRGB8"
    [] fmt = "Bgra8" -> "kImageTensorChannelTypeBGR8"
    [] fmt = "Gray8" -> "kImageTensorChannelTypeGRAY8"

\* the bounds override is absent or a well-formed rectangle
BoundsOverrideWellFormed ==
  \/ context.properties.BitmapBounds.type = "absent"
  \/ /\ context.properties.BitmapBounds.type = "UInt32Array"
     /\ Len(context.properties.BitmapBounds.data) = 4

\* C9: the pixel format of a resolved description is the valid override when
\* there is one, whatever the descriptor declares; without an override it is
\* an image descriptor's declared format; without either it is grayscale for
\* 1 channel and BGR for 3.  An override outside the three supported formats
\* never resolves: where the earlier steps pass, the resolution fails with
\* the invalid-binding condition.
C9_PixelFormatPrecedence ==
  metadata.kind # "None" =>
    /\ (metadata.kind = "Resolved"
        /\ context.properties.BitmapPixelFormat \in SupportedFormats) =>
          metadata.TensorDescriptor.channelType =
            ChannelTypeOf(context.properties.BitmapPixelFormat)
    /\ (metadata.kind = "Resolved"
        /\ context.properties.BitmapPixelFormat = "absent"
        /\ context.descriptor.kind = "image") =>
          metadata.TensorDescriptor.channelType =
            ChannelTypeOf(context.descriptor.BitmapPixelFormat)
    /\ (metadata.kind = "Resolved"
        /\ context.properties.BitmapPixelFormat = "absent"
        /\ context.descriptor.kind = "tensor") =>
          metadata.TensorDescriptor.channelType =
            (IF context.descriptor.Shape[2] = 1
             THEN "kImageTensorChannelTypeGRAY8"
             ELSE "kImageTensorChannelTypeBGR8")
    /\ context.properties.BitmapPixelFormat \notin (SupportedFormats \cup {"absent"}) =>
          /\ metadata.kind # "Resolved"
          /\ (Serviceable /\ FreeAxesAgree /\ BoundsOverrideWellFormed) =>
                /\ metadata.kind = "Throw"
                /\ metadata.hr = "WINML_ERR_INVALID_BINDING"

\* C9's case: a grayscale override resolves against a descriptor that
\* declares a format the resolver does not support
C9_Witness ==
  /\ metadata.kind = "Resolved"
  /\ context.properties.BitmapPixelFormat = "Gray8"
  /\ context.descriptor.kind = "image"
  /\ context.descriptor.BitmapPixelFormat = "Rgba16"
  /\ metadata.TensorDescriptor.channelType = "kImageTensorChannelTypeGRAY8"

\* the rectangle the selection rule gives frame i
C10_Selected(i) ==
  IF context.properties.BitmapBounds.type # "absent"
  THEN BitmapBounds(context.properties.BitmapBounds.data[1],
                    context.properties.BitmapBounds.data[2],
                    context.properties.BitmapBounds.data[3],
                    context.properties.BitmapBounds.data[4])
  ELSE IF context.type = "kInput"
  THEN CenterCropTable[<<m_widths[i], m_heights[i],
                         metadata.TensorDescriptor.sizes[4],
                         metadata.TensorDescriptor.sizes[3]>>].value
  ELSE BitmapBounds(0, 0, m_widths[i], m_heights[i])

\* C10: with a bounds override the center crop is not evaluated and every
\* frame gets the override's rectangle; without one, frame i of an input
\* binding gets the center crop of frame i against the resolved width and
\* height, and frame i of an output binding gets (0, 0, width_i, height_i).
C10_BoundsSelection ==
  metadata.kind # "None" =>
    /\ context.properties.BitmapBounds.type # "absent" => metadata.cropCalls = 0
    /\ metadata.kind = "Resolved" =>
          /\ Len(metadata.Bounds) = m_batchSize
          /\ \A i \in 1..m_batchSize : metadata.Bounds[i] = C10_Selected(i)

\* C10's case: an input batch of two different frames resolved with a
\* bounds override
C10_Witness ==
  /\ metadata.kind = "Resolved"
  /\ context.type = "kInput"
  /\ context.properties.BitmapBounds.type = "UInt32Array"
  /\ m_batchSize = 2
  /\ m_widths[1] # m_widths[2]
  /\ metadata.Bounds[1] = metadata.Bounds[2]

\* elementSize(dtype) x channels x height x width of a tensor description,
\* multiplied in the claim's order
ExactFrameBytes(td) ==
  I64Mul(I64Mul(I64Mul(I64(IF td.dataType = "kImageTensorDataTypeFloat32"
                           THEN 4 ELSE 2),
                       td.sizes[2]),
                td.sizes[3]),
         td.sizes[4])

\* an unsigned int read as a 64-bit value
ZeroExtend(u) == u \o <<0, 0, 0, 0>>

\* C11 (as stated): for the resolved description of a CPU conversion, the
\* total byte size is elementSize x batch x channels x height x width, the
\* per-frame size is total / batch without remainder, and the stride that
\* advances the pointer (in CPU tensorization after the narrowing to
\* unsigned int) is that exact quotient.
C11_ExactByteSizes ==
  /\ (entry = "GetOrtValue" /\ pc = "CPUTensorize") =>
        /\ bufferByteSize =
             I64Mul(ExactFrameBytes(metadata.TensorDescriptor), m_batchSize)
        /\ I64Mul(FrameByteSize(metadata.TensorDescriptor, m_batchSize),
                  m_batchSize) = bufferByteSize
        /\ ZeroExtend(singleFrameBufferSize) =
             ExactFrameBytes(metadata.TensorDescriptor)
  /\ (entry = "UpdateSourceResourceData" /\ pc = "SoftwareTensorToVideoFrame") =>
        bufferByteSize = ExactFrameBytes(metadata.TensorDescriptor)

\* C12 (as stated): once GetInputMetadata has been called with a tensor-shaped
\* descriptor whose channel axis (index 1) is neither 1 nor 3 and with no
\* pixel-format override, the call has failed with WINML_ERR_SIZE_MISMATCH.
C12_ChannelCountSizeMismatch ==
  (/\ metadata.kind # "None"
   /\ context.descriptor.kind = "tensor"
   /\ Len(context.descriptor.Shape) >= 2
   /\ context.descriptor.Shape[2] \notin {1, 3}
   /\ context.properties.BitmapPixelFormat = "absent")
     => (metadata.kind = "Throw" /\ metadata.hr = "WINML_ERR_SIZE_MISMATCH")

\* the events of the GPU readback path, and the event of the CPU path
GpuReadbackEvents ==
  {"DX12TensorToVideoFrame", "SyncD3D12ToCPU", "ResetAllocator"}

\* C13: during and after a readback whose metadata resolved, the path taken
\* follows the output tensor's memory location alone: for a CPU-resident
\* tensor (allocator named Cpu, or memory type CPU output or CPU input) the
\* fetched detensorizer is keyed by the empty device identity and only
\* SoftwareTensorToVideoFrame runs, with no device synchronisation; for any
\* other tensor the fetched detensorizer is keyed by the adapter identity and
\* only the GPU statements run; whatever the binding direction and device.
C13_PathFollowsMemoryLocation ==
  (entry = "UpdateSourceResourceData" /\ log # <<>>) =>
    /\ log[1].ev = "fetch"
    /\ converters[log[1].c].store = "DetensorizerStore"
    /\ IF \/ lastMemoryInfo.Name = "Cpu"
          \/ lastMemoryInfo.MemType \in {"OrtMemTypeCPUOutput",
                                         "OrtMemTypeCPUInput"}
       THEN /\ converters[log[1].c].descriptor.luid = "{}"
            /\ \A k \in DOMAIN log : log[k].ev \notin GpuReadbackEvents
            /\ pc \in {"idle", "SoftwareTensorToVideoFrame"}
       ELSE /\ converters[log[1].c].descriptor.luid = "AdapterLuid"
            /\ \A k \in DOMAIN log : log[k].ev # "SoftwareTensorToVideoFrame"
            /\ pc \in {"idle"} \cup GpuReadbackEvents

\* a readback on a GPU device of a tensor in CPU-output memory of the DML
\* allocator has returned after converting its frames on the CPU path
C13_Witness ==
  /\ entry = "UpdateSourceResourceData"
  /\ pc = "idle" /\ hr = "S_OK"
  /\ device = "gpu"
  /\ lastMemoryInfo.Name = "DML"
  /\ lastMemoryInfo.MemType = "OrtMemTypeCPUOutput"
  /\ \E k \in DOMAIN log : log[k].ev = "SoftwareTensorToVideoFrame"

\* C14: when a readback call has run to its end (UpdateSourceResourceData has
\* returned S_OK), the binding context holds no converter reference and no
\* converter is checked out of the pool: every converter borrowed by the
\* GPU tensorization of the preceding bind is back in its store.
C14_NoConverterHeldAfterReadback ==
  (pc = "idle" /\ entry = "UpdateSourceResourceData" /\ hr = "S_OK") =>
    /\ context.converter = 0
    /\ CheckedOut = {}

\* a readback has returned S_OK on the context of an input binding of two
\* frames that a GPU device tensorized
C14_Witness ==
  /\ pc = "idle" /\ entry = "UpdateSourceResourceData" /\ hr = "S_OK"
  /\ ctxState = "bound" /\ context.type = "kInput" /\ device = "gpu"
  /\ m_batchSize = 2
  /\ \E c \in DOMAIN converters :
        /\ converters[c].store = "TensorizerStore"
        /\ converters[c].descriptor.luid = "AdapterLuid"

\* a <= b for two values of the same width
LeqBytes(a, b) ==
  \/ a = b
  \/ \E k \in DOMAIN a : /\ a[k] < b[k]
                         /\ \A j \in (k + 1)..Len(a) : a[j] = b[j]

\* the three events of one frame of the CPU tensorize loop
C15_FrameEvents(k) ==
  IF k % 3 = 1 THEN {"fetch"}
  ELSE IF k % 3 = 2 THEN {"VideoFrameToSoftwareTensor", "throw"}
  ELSE {"return"}

\* C15 (as stated): CPU tensorization takes the frames in batch order, each
\* frame's converter being fetched, used and returned before the next
\* frame's is fetched; frame i (counted from 0) is written at byte offset
\* i x per_frame_byte_size, the ranges of two frames do not overlap, and
\* each range ends inside the buffer of total_byte_size bytes.
C15_OrderedDisjointRanges ==
  (entry = "GetOrtValue" /\ device = "cpu" /\ metadata.kind = "Resolved") =>
    /\ \A k \in DOMAIN log :
          /\ log[k].i = ((k - 1) \div 3) + 1
          /\ log[k].ev \in C15_FrameEvents(k)
    /\ \A k \in DOMAIN written :
          /\ written[k] =
               I64Mul(ExactFrameBytes(metadata.TensorDescriptor), k - 1)
          /\ LeqBytes(PtrAdd(written[k],
                             ExactFrameBytes(metadata.TensorDescriptor)),
                      I64Mul(ExactFrameBytes(metadata.TensorDescriptor),
                             m_batchSize))
          /\ \A j \in 1..(k - 1) :
                LeqBytes(PtrAdd(written[j],
                                ExactFrameBytes(metadata.TensorDescriptor)),
                         written[k])

====
